---- MODULE Spec2Model ----
(***************************************************************************)
(* A model of vector.c / vector.h: a growable array of owned element       *)
(* buffers.  The state is the one vec_t object (data, len, max), the       *)
(* backing storage data points to, and the heap of element buffers.        *)
(* size_t arithmetic wraps modulo 2^SizeBits, as in the C code.            *)
(*                                                                         *)
(* Every function is an operator from the state before the call to the    *)
(* state after it, with the value returned, the slots it read and wrote    *)
(* and the pointers it freed.  The handle v is the address of the one      *)
(* vec_t object, so the v == NULL returns are never taken.  Each slot of   *)
(* the backing storage holds an element buffer, NULL, or a value that is   *)
(* no pointer to anything.  What a block holds before the program writes   *)
(* to it is the allocator's choice: zeroes, a fill pattern, or what an     *)
(* earlier block left there; so is whether realloc extends a block where   *)
(* it lies or moves it.                                                    *)
(***************************************************************************)
EXTENDS Integers, Sequences, FiniteSets, TLC

\* ------------------------------------------------------------ constants
DEF_MAX == 10
VEC_GOOD == 0
VEC_ALLOC_ERR == 1
VEC_NULL_ERR == 2
VEC_RANGE_ERR == 3
PtrSize == 8

\* -------------------------------------------------------------- bounds
SizeBits == 12
MaxAllocs == 3
MaxElems == 2
MaxReserve == 11
MaxFill == 11
MaxCache == 2

SizeMod == 2 ^ SizeBits
SIZE_MAX == SizeMod - 1
\* size_t arithmetic
Wrap(x) == x % SizeMod
\* data + k is an address: k * sizeof(void *) wraps, so slot indices alias
\* modulo SizeMod / PtrSize
SlotMod == SizeMod \div PtrSize
Phys(k) == k % SlotMod

\* pointer values held in slots: element buffer ids, NULL, or a word that
\* is no pointer to a buffer (the allocator's fill pattern, or its own
\* bookkeeping in the words next to a block and in a released block)
NULL == 0
GARBAGE == 0 - 1
Ids == 1 .. MaxFill
\* the caller's NULL data pointer
DNULL == << >>

\* ----------------------------------------------------- backing storage
\* slots is the allocated block, slot k at slots[k + 1]; Len(slots) is the
\* number of slots the allocator actually provided.
Rd(slots, k) == IF Phys(k) < Len(slots) THEN slots[Phys(k) + 1] ELSE GARBAGE

Wr(slots, k, p) ==
    IF Phys(k) < Len(slots) THEN [slots EXCEPT ![Phys(k) + 1] = p] ELSE slots

\* memmove(data + dst, data + src, cnt * sizeof(void *))
memmove(slots, dst, src, cnt) ==
    [k \in 1 .. Len(slots) |->
        LET j == (k - 1 - Phys(dst)) % SlotMod
        IN  IF j < cnt THEN Rd(slots, src + j) ELSE slots[k]]

\* the number of slots a byte count of sh * sizeof(void *) covers
MoveCount(sh) == Wrap(sh * PtrSize) \div PtrSize

\* The allocator rounds a request up to its chunk size: a block of cnt
\* slots has Usable(cnt) slots, those beyond cnt never written
Usable(cnt) == IF cnt < 3 THEN 3 ELSE cnt + (1 - (cnt % 2))

\* What malloc and realloc leave in the slots of a block the program has
\* not written: pat in the first of them, rest in all others.  Zeroed is
\* memory new from the system, Perturbed new memory the allocator has
\* filled (MALLOC_PERTURB_), Recycled(old) a released block, holding old,
\* that malloc hands out again, the second word cleared, Extended(old) the
\* memory behind a block holding old that realloc extends where it lies:
\* the unused rest of its chunk, the allocator's bookkeeping word that
\* followed it, and new memory.
Zeroed == [how |-> "new", pat |-> << >>, rest |-> NULL]
Perturbed == [how |-> "new", pat |-> << >>, rest |-> GARBAGE]
Recycled(old) ==
    [how |-> "reuse", pat |-> <<GARBAGE, NULL>> \o SubSeq(old, 3, Len(old)),
     rest |-> NULL]
Extended(old) ==
    [how |-> "inplace",
     pat |-> [k \in 1 .. Usable(Len(old)) - Len(old) |-> NULL] \o <<GARBAGE>>,
     rest |-> NULL]

Fresh(cnt, fill) ==
    [k \in 1 .. cnt |-> IF k <= Len(fill.pat) THEN fill.pat[k] ELSE fill.rest]

\* what a block holding m holds once it is released: the allocator links
\* it into its list of free blocks through the first two words
Released(m) == [k \in 1 .. Len(m) |-> IF k <= 2 THEN GARBAGE ELSE m[k]]

\* s.stale is what the block released last holds, empty once that block
\* is in use again.  s.cache is the allocator's list of released blocks,
\* the one released last first; malloc of cnt slots can hand out again
\* the first block in it whose chunk has the size the request needs.
CacheAt(s, cnt) ==
    LET fit == {k \in 1 .. Len(s.cache) :
                   Usable(Len(s.cache[k])) = Usable(cnt)}
    IN  IF fit = {} THEN 0 ELSE CHOOSE k \in fit : \A j \in fit : k <= j
Cached(s, cnt) ==
    IF CacheAt(s, cnt) = 0 THEN << >> ELSE s.cache[CacheAt(s, cnt)]
CacheTake(s, cnt) ==
    IF CacheAt(s, cnt) = 0 THEN s.cache
    ELSE SubSeq(s.cache, 1, CacheAt(s, cnt) - 1) \o
         SubSeq(s.cache, CacheAt(s, cnt) + 1, Len(s.cache))
StaleFree(s, m) == Released(m)
CacheFree(s, m) == IF Len(m) = 0 THEN s.cache ELSE <<Released(m)>> \o s.cache
StaleHeld(s, cnt) ==
    IF Len(s.stale) > 0 /\ Usable(Len(s.stale)) = Usable(cnt)
    THEN << >> ELSE s.stale

\* the block v->data points to: the live block, or, when v->data dangles,
\* the released block it still points into
Mem(s) == IF s.data = "FREED" THEN s.stale ELSE s.slots
Store(s, m) ==
    IF s.data = "FREED"
    THEN [s EXCEPT !.stale = m,
                   !.cache = IF Cached(s, Len(s.stale)) = s.stale /\ Len(m) > 0
                             THEN [@ EXCEPT ![CacheAt(s, Len(s.stale))] = m]
                             ELSE @]
    ELSE [s EXCEPT !.slots = m]
\* the number of slots of the live block; no slot of a released block may
\* be accessed
Alloc(s) == IF s.data = "FREED" THEN 0 - 1 ELSE Len(s.slots)

\* realloc(v->data, bytes), which succeeds (ok) or fails: res is the
\* pointer returned and slots the block it points to, released tells
\* whether the old block was released, bad whether the pointer passed was
\* a dangling one.  A NULL pointer makes the call a malloc.  A block
\* that need not grow stays where it is; one that must grow is extended
\* where it lies or moved (fill.how), and a moved block takes the usable
\* slots of the old one along while the old one is released.  bytes = 0
\* releases the block.
realloc(s, bytes, ok, fill) ==
    LET cnt == bytes \div PtrSize
        old == Mem(s)
        bad == s.data = "FREED"
    IN  IF bytes = 0
        THEN [res |-> IF ok THEN "PTR" ELSE "NULL", slots |-> << >>,
              stale |-> IF s.data = "PTR" THEN StaleFree(s, old) ELSE s.stale,
              cache |-> IF s.data = "PTR" THEN CacheFree(s, old) ELSE s.cache,
              released |-> s.data # "NULL", bad |-> bad]
        ELSE IF ~ok
        THEN [res |-> "NULL", slots |-> s.slots, stale |-> s.stale,
              cache |-> s.cache, released |-> FALSE, bad |-> bad]
        ELSE IF s.data = "NULL"
        THEN [res |-> "PTR", slots |-> Fresh(cnt, fill),
              stale |-> IF fill.how = "reuse" THEN StaleHeld(s, cnt) ELSE s.stale,
              cache |-> IF fill.how = "reuse" THEN CacheTake(s, cnt) ELSE s.cache,
              released |-> FALSE, bad |-> bad]
        ELSE IF cnt <= Len(old) \/ fill.how = "inplace"
        THEN [res |-> "PTR",
              slots |-> IF cnt <= Len(old) THEN SubSeq(old, 1, cnt)
                        ELSE old \o Fresh(cnt - Len(old), fill),
              stale |-> IF bad THEN << >> ELSE s.stale,
              cache |-> IF bad /\ Len(old) > 0 /\ Cached(s, Len(old)) = old
                        THEN CacheTake(s, Len(old)) ELSE s.cache,
              released |-> FALSE, bad |-> bad]
        ELSE [res |-> "PTR",
              slots |-> [k \in 1 .. cnt |->
                           IF k <= Len(old) THEN old[k]
                           ELSE IF k <= Usable(Len(old)) THEN NULL
                           ELSE Fresh(cnt, fill)[k]],
              stale |-> StaleFree(s, old), cache |-> CacheFree(s, old),
              released |-> TRUE, bad |-> bad]

\* ------------------------------------------------------ element buffers
NextId(heap) == CHOOSE id \in Ids :
    /\ heap[id] = "unused"
    /\ \A j \in Ids : heap[j] = "unused" => id <= j

\* the number of element buffers allocated so far
NAlloc(heap) == Cardinality({id \in Ids : heap[id] # "unused"})

\* free(p) for each p of ptrs, in order
BadFree(heap, ptrs) ==
    \E k \in 1 .. Len(ptrs) :
        /\ ptrs[k] # NULL
        /\ \/ ptrs[k] \notin Ids
           \/ heap[ptrs[k]] # "live"
           \/ \E j \in 1 .. (k - 1) : ptrs[j] = ptrs[k]

FreeAll(heap, ptrs) ==
    [id \in Ids |->
        IF heap[id] = "live" /\ \E k \in 1 .. Len(ptrs) : ptrs[k] = id
        THEN "freed" ELSE heap[id]]

\* Out-of-bounds accesses that can fault or corrupt the heap: a write outside
\* the block, or a read further than the one slot that follows it (a read of
\* that slot yields the allocator's bookkeeping word).
OobHazard(acc, alloc) ==
    \E k \in 1 .. Len(acc) :
        /\ acc[k][3] > 0
        /\ \/ acc[k][1] = "w" /\ Phys(acc[k][2]) + acc[k][3] > alloc
           \/ acc[k][1] = "r" /\ Phys(acc[k][2]) + acc[k][3] > alloc + 1

\* an operation's result: the state after, the value returned, the slot
\* ranges read and written (kind, first slot, count), the pointers passed
\* to free, and haz: whether the call had undefined behaviour that can
\* end the process (s0 is the state before, alloc the size of the block
\* the accesses went to, bad an invalid pointer given to realloc or free)
Res(s0, st, ret, acc, frees, alloc, bad) ==
    [st |-> st, ret |-> ret, acc |-> acc, frees |-> frees,
     haz |-> bad \/ OobHazard(acc, alloc) \/ BadFree(s0.heap, frees)]

VOID == 0 - 2

\* ---------------------------------------------------------- vector.c
vec_check(s) == s.data # "NULL"

\* malloc(DEF_MAX * sizeof(void *)); the block v->data pointed to before,
\* if any, is not released
vec_init(s, ok, fill) ==
    LET reuse == ok /\ fill.how = "reuse"
        st == [s EXCEPT !.len = 0, !.max = DEF_MAX,
                        !.data = IF ok THEN "PTR" ELSE "NULL",
                        !.slots = IF ok THEN Fresh(DEF_MAX, fill) ELSE << >>,
                        !.stale = IF reuse THEN StaleHeld(s, DEF_MAX) ELSE @,
                        !.cache = IF reuse THEN CacheTake(s, DEF_MAX) ELSE @]
    IN  Res(s, st, IF ok THEN VEC_GOOD ELSE VEC_ALLOC_ERR, << >>, << >>, 0, FALSE)

\* vec_fix growing into a new block without the old contents
vec_fix_nocopy(s, ok, fill) ==
    IF s.len < s.max
    THEN [st |-> s, ret |-> TRUE, bad |-> FALSE]
    ELSE LET r == realloc(s, Wrap(Wrap(2 * s.max) * PtrSize), ok, fill)
         IN  IF r.res # "NULL"
             THEN [st |-> [s EXCEPT !.max = Wrap(s.max * 2), !.data = r.res,
                                    !.slots = Fresh(Len(r.slots), fill),
                                    !.stale = r.stale, !.cache = r.cache],
                   ret |-> TRUE, bad |-> r.bad]
             ELSE [st |-> [s EXCEPT !.data = IF r.released THEN "FREED" ELSE @,
                                    !.slots = r.slots, !.stale = r.stale, !.cache = r.cache],
                   ret |-> FALSE, bad |-> r.bad]

vec_fix(s, ok, fill) ==
    IF s.len < s.max
    THEN [st |-> s, ret |-> TRUE, bad |-> FALSE]
    ELSE LET r == realloc(s, Wrap(Wrap(2 * s.max) * PtrSize), ok, fill)
         IN  IF r.res # "NULL"
             THEN [st |-> [s EXCEPT !.max = Wrap(s.max * 2), !.data = r.res,
                                    !.slots = r.slots, !.stale = r.stale, !.cache = r.cache],
                   ret |-> TRUE, bad |-> r.bad]
             ELSE [st |-> [s EXCEPT !.data = IF r.released THEN "FREED" ELSE @,
                                    !.slots = r.slots, !.stale = r.stale, !.cache = r.cache],
                   ret |-> FALSE, bad |-> r.bad]

\* vec_reserve without the n <= max test
vec_reserve_nocheck(s, n, ok, fill) ==
    LET r == realloc(s, Wrap(Wrap(n * s.max) * PtrSize), ok, fill)
    IN  IF r.res # "NULL"
        THEN Res(s, [s EXCEPT !.max = n, !.data = r.res, !.slots = r.slots,
                                !.stale = r.stale, !.cache = r.cache],
                 VEC_GOOD, << >>, << >>, 0, r.bad)
        ELSE Res(s, [s EXCEPT !.data = IF r.released THEN "FREED" ELSE @,
                              !.slots = r.slots, !.stale = r.stale, !.cache = r.cache],
                 VEC_ALLOC_ERR, << >>, << >>, 0, r.bad)

vec_reserve(s, n, ok, fill) ==
    IF n <= s.max
    THEN Res(s, s, VEC_RANGE_ERR, << >>, << >>, 0, FALSE)
    ELSE LET r == realloc(s, Wrap(Wrap(n * s.max) * PtrSize), ok, fill)
         IN  IF r.res # "NULL"
             THEN Res(s, [s EXCEPT !.max = n, !.data = r.res, !.slots = r.slots,
                                !.stale = r.stale, !.cache = r.cache],
                      VEC_GOOD, << >>, << >>, 0, r.bad)
             ELSE Res(s, [s EXCEPT !.data = IF r.released THEN "FREED" ELSE @,
                                   !.slots = r.slots, !.stale = r.stale, !.cache = r.cache],
                      VEC_ALLOC_ERR, << >>, << >>, 0, r.bad)

\* malloc(n) and memcpy(ret, d, n): the copy holds the first n bytes of d
vec_new_elem(s, d, n, ok) ==
    IF d = DNULL \/ n = 0 \/ ~ok
    THEN [st |-> s, ptr |-> NULL]
    ELSE LET id == NextId(s.heap)
         IN  [st |-> [s EXCEPT !.heap[id] = "live",
                               !.content[id] = SubSeq(d, 1, n)],
              ptr |-> id]

vec_add(s, d, n, okFix, okElem, fill) ==
    IF ~vec_check(s)
    THEN Res(s, s, VEC_NULL_ERR, << >>, << >>, 0, FALSE)
    ELSE LET f == vec_fix(s, okFix, fill)
         IN  IF ~f.ret
             THEN Res(s, f.st, VEC_ALLOC_ERR, << >>, << >>, 0, f.bad)
             ELSE LET e == vec_new_elem(f.st, d, n, okElem)
                  IN  IF e.ptr # NULL
                      THEN Res(s, [Store(e.st, Wr(Mem(e.st), s.len, e.ptr))
                                      EXCEPT !.len = Wrap(s.len + 1)],
                               VEC_GOOD, << <<"w", s.len, 1>> >>, << >>,
                               Alloc(f.st), f.bad)
                      ELSE Res(s, e.st, VEC_ALLOC_ERR, << >>, << >>, 0, f.bad)

\* vec_ins moving one element too few
vec_ins_shortmove(s, d, n, i, okFix, okElem, fill) ==
    IF ~vec_check(s)
    THEN Res(s, s, VEC_NULL_ERR, << >>, << >>, 0, FALSE)
    ELSE IF i >= s.len
    THEN vec_add(s, d, n, okFix, okElem, fill)
    ELSE LET f == vec_fix(s, okFix, fill)
         IN  IF ~f.ret
             THEN Res(s, f.st, VEC_ALLOC_ERR, << >>, << >>, 0, f.bad)
             ELSE LET e == vec_new_elem(f.st, d, n, okElem)
                      sh == Wrap(s.len - i)
                      cnt == MoveCount(sh - 1)
                  IN  IF e.ptr # NULL
                      THEN Res(s, [Store(e.st, Wr(memmove(Mem(e.st), i + 1, i, cnt),
                                                  i, e.ptr))
                                      EXCEPT !.len = Wrap(s.len + 1)],
                               VEC_GOOD,
                               << <<"r", i, cnt>>, <<"w", i + 1, cnt>>, <<"w", i, 1>> >>,
                               << >>, Alloc(f.st), f.bad)
                      ELSE Res(s, e.st, VEC_ALLOC_ERR, << >>, << >>, 0, f.bad)

\* vec_ins rejecting an index beyond the length instead of appending
vec_ins_reject(s, d, n, i, okFix, okElem, fill) ==
    IF ~vec_check(s)
    THEN Res(s, s, VEC_NULL_ERR, << >>, << >>, 0, FALSE)
    ELSE IF i >= s.len
    THEN Res(s, s, VEC_RANGE_ERR, << >>, << >>, 0, FALSE)
    ELSE LET f == vec_fix(s, okFix, fill)
         IN  IF ~f.ret
             THEN Res(s, f.st, VEC_ALLOC_ERR, << >>, << >>, 0, f.bad)
             ELSE LET e == vec_new_elem(f.st, d, n, okElem)
                      sh == Wrap(s.len - i)
                      cnt == MoveCount(sh)
                  IN  IF e.ptr # NULL
                      THEN Res(s, [Store(e.st, Wr(memmove(Mem(e.st), i + 1, i, cnt),
                                                  i, e.ptr))
                                      EXCEPT !.len = Wrap(s.len + 1)],
                               VEC_GOOD,
                               << <<"r", i, cnt>>, <<"w", i + 1, cnt>>, <<"w", i, 1>> >>,
                               << >>, Alloc(f.st), f.bad)
                      ELSE Res(s, e.st, VEC_ALLOC_ERR, << >>, << >>, 0, f.bad)

vec_ins(s, d, n, i, okFix, okElem, fill) ==
    IF ~vec_check(s)
    THEN Res(s, s, VEC_NULL_ERR, << >>, << >>, 0, FALSE)
    ELSE IF i >= s.len
    THEN vec_add(s, d, n, okFix, okElem, fill)
    ELSE LET f == vec_fix(s, okFix, fill)
         IN  IF ~f.ret
             THEN Res(s, f.st, VEC_ALLOC_ERR, << >>, << >>, 0, f.bad)
             ELSE LET e == vec_new_elem(f.st, d, n, okElem)
                      sh == Wrap(s.len - i)
                      cnt == MoveCount(sh)
                  IN  IF e.ptr # NULL
                      THEN Res(s, [Store(e.st, Wr(memmove(Mem(e.st), i + 1, i, cnt),
                                                  i, e.ptr))
                                      EXCEPT !.len = Wrap(s.len + 1)],
                               VEC_GOOD,
                               << <<"r", i, cnt>>, <<"w", i + 1, cnt>>, <<"w", i, 1>> >>,
                               << >>, Alloc(f.st), f.bad)
                      ELSE Res(s, e.st, VEC_ALLOC_ERR, << >>, << >>, 0, f.bad)

Handed(s, p) == IF p \in Ids THEN s.handed \cup {p} ELSE s.handed

\* vec_del without the memmove that closes the gap
vec_del_noshift(s, i) ==
    IF ~vec_check(s)
    THEN Res(s, s, NULL, << >>, << >>, 0, FALSE)
    ELSE LET last == Wrap(s.len - 1)
             newlen == Wrap(s.len - 1)
         IN  IF i >= last
             THEN LET ret == Rd(Mem(s), last)
                  IN  Res(s, [Store(s, Wr(Mem(s), newlen, NULL)) EXCEPT
                                       !.len = newlen,
                                       !.handed = Handed(s, ret)],
                          ret, << <<"r", last, 1>>, <<"w", newlen, 1>> >>,
                          << >>, Alloc(s), FALSE)
             ELSE LET ret == Rd(Mem(s), i)
                      shift == Wrap(s.len - i)
                      cnt == MoveCount(shift)
                  IN  Res(s, [Store(s, Wr(Mem(s), newlen, NULL)) EXCEPT
                                !.len = newlen,
                                !.handed = Handed(s, ret)],
                          ret,
                          << <<"r", i, 1>>, <<"r", i + 1, cnt>>, <<"w", i, cnt>>,
                             <<"w", newlen, 1>> >>,
                          << >>, Alloc(s), FALSE)

vec_del(s, i) ==
    IF ~vec_check(s)
    THEN Res(s, s, NULL, << >>, << >>, 0, FALSE)
    ELSE LET last == Wrap(s.len - 1)
             newlen == Wrap(s.len - 1)
         IN  IF i >= last
             THEN LET ret == Rd(Mem(s), last)
                  IN  Res(s, [Store(s, Wr(Mem(s), newlen, NULL)) EXCEPT
                                       !.len = newlen,
                                       !.handed = Handed(s, ret)],
                          ret, << <<"r", last, 1>>, <<"w", newlen, 1>> >>,
                          << >>, Alloc(s), FALSE)
             ELSE LET ret == Rd(Mem(s), i)
                      shift == Wrap(s.len - i)
                      cnt == MoveCount(shift)
                  IN  Res(s, [Store(s, Wr(memmove(Mem(s), i, i + 1, cnt),
                                             newlen, NULL)) EXCEPT
                                !.len = newlen,
                                !.handed = Handed(s, ret)],
                          ret,
                          << <<"r", i, 1>>, <<"r", i + 1, cnt>>, <<"w", i, cnt>>,
                             <<"w", newlen, 1>> >>,
                          << >>, Alloc(s), FALSE)

\* vec_delrange clamping the count to the length, not to what follows i
vec_delrange_badclamp(s, i0, n0) ==
    IF ~vec_check(s) \/ n0 = 0
    THEN Res(s, s, VOID, << >>, << >>, 0, FALSE)
    ELSE LET i == IF i0 >= s.len THEN Wrap(s.len - 1) ELSE i0
             n == IF n0 > s.len THEN s.len ELSE n0
             left == Wrap(s.len - Wrap(i + n))
             cnt == MoveCount(left)
             frees == [j \in 1 .. n |-> Rd(Mem(s), Wrap(i + j - 1))]
         IN  Res(s, [Store(s, IF left # 0
                                  THEN memmove(Mem(s), i, Wrap(i + n), cnt)
                                  ELSE Mem(s)) EXCEPT
                       !.len = Wrap(s.len - n),
                       !.heap = FreeAll(@, frees)],
                 VOID,
                 << <<"r", i, n>> >> \o
                   (IF left # 0
                    THEN << <<"r", Wrap(i + n), cnt>>, <<"w", i, cnt>> >>
                    ELSE << >>),
                 frees, Alloc(s), FALSE)

vec_delrange(s, i0, n0) ==
    IF ~vec_check(s) \/ n0 = 0
    THEN Res(s, s, VOID, << >>, << >>, 0, FALSE)
    ELSE LET i == IF i0 >= s.len THEN Wrap(s.len - 1) ELSE i0
             n == IF n0 > Wrap(s.len - i) THEN Wrap(s.len - i) ELSE n0
             left == Wrap(s.len - Wrap(i + n))
             cnt == MoveCount(left)
             frees == [j \in 1 .. n |-> Rd(Mem(s), Wrap(i + j - 1))]
         IN  Res(s, [Store(s, IF left # 0
                                  THEN memmove(Mem(s), i, Wrap(i + n), cnt)
                                  ELSE Mem(s)) EXCEPT
                       !.len = Wrap(s.len - n),
                       !.heap = FreeAll(@, frees)],
                 VOID,
                 << <<"r", i, n>> >> \o
                   (IF left # 0
                    THEN << <<"r", Wrap(i + n), cnt>>, <<"w", i, cnt>> >>
                    ELSE << >>),
                 frees, Alloc(s), FALSE)

\* vec_reverse with the loop running to len instead of len / 2: every pair
\* is swapped twice
vec_reverse_fullloop(s) ==
    IF ~vec_check(s)
    THEN Res(s, s, VOID, << >>, << >>, 0, FALSE)
    ELSE Res(s, s, VOID,
             << <<"r", 0, s.len>>, <<"w", 0, s.len>> >>,
             << >>, Alloc(s), FALSE)

vec_reverse(s) ==
    IF ~vec_check(s)
    THEN Res(s, s, VOID, << >>, << >>, 0, FALSE)
    ELSE LET half == s.len \div 2
         IN  Res(s, Store(s,
                       [k \in 1 .. Len(Mem(s)) |->
                          IF k - 1 < half \/ (s.len - half <= k - 1 /\ k - 1 < s.len)
                          THEN Rd(Mem(s), s.len - (k - 1) - 1)
                          ELSE Mem(s)[k]]),
                 VOID,
                 << <<"r", 0, half>>, <<"r", s.len - half, half>>,
                    <<"w", 0, half>>, <<"w", s.len - half, half>> >>,
                 << >>, Alloc(s), FALSE)

\* vec_clear stopping one element short of the end
vec_clear_leak(s) ==
    IF ~vec_check(s)
    THEN Res(s, s, VOID, << >>, << >>, 0, FALSE)
    ELSE LET frees == [j \in 1 .. s.len - 1 |-> Rd(Mem(s), j - 1)]
         IN  Res(s, [s EXCEPT !.len = 0, !.heap = FreeAll(@, frees)],
                 VOID, << <<"r", 0, s.len - 1>> >>, frees, Alloc(s), FALSE)

vec_clear(s) ==
    IF ~vec_check(s)
    THEN Res(s, s, VOID, << >>, << >>, 0, FALSE)
    ELSE LET frees == [j \in 1 .. s.len |-> Rd(Mem(s), j - 1)]
         IN  Res(s, [s EXCEPT !.len = 0, !.heap = FreeAll(@, frees)],
                 VOID, << <<"r", 0, s.len>> >>, frees, Alloc(s), FALSE)

\* free(v->data) releases the backing storage; v->len and v->max are kept
vec_free(s) ==
    IF ~vec_check(s)
    THEN Res(s, s, VOID, << >>, << >>, 0, FALSE)
    ELSE LET frees == [j \in 1 .. s.len |-> Rd(Mem(s), j - 1)]
         IN  Res(s, [s EXCEPT !.data = "NULL", !.slots = << >>,
                              !.stale = IF s.data = "PTR"
                                        THEN StaleFree(s, s.slots) ELSE @,
                              !.cache = IF s.data = "PTR"
                                        THEN CacheFree(s, s.slots) ELSE @,
                              !.heap = FreeAll(@, frees)],
                 VOID, << <<"r", 0, s.len>> >>, frees, Alloc(s),
                 s.data = "FREED")

\* qsort(v->data, v->len, sizeof(void *), cmp): the comparator orders two
\* elements by their first byte; elements that compare equal may end in
\* any order.  order[k] is the old position of the element placed at k.
\* Fewer than two elements are neither compared nor moved; with two or
\* more the comparator reads through every slot below len.
Key(s, p) == s.content[p][1]

Sortable(s) ==
    \/ s.len < 2
    \/ /\ s.len <= Len(Mem(s))
       /\ \A k \in 1 .. s.len : Mem(s)[k] \in Ids /\ s.heap[Mem(s)[k]] = "live"

QsortOrders(s) ==
    IF ~Sortable(s)
    THEN {<< >>}
    ELSE {o \in [1 .. s.len -> 1 .. s.len] :
            /\ \A a, b \in 1 .. s.len : a # b => o[a] # o[b]
            /\ \A a, b \in 1 .. s.len :
                 a < b => Key(s, Mem(s)[o[a]]) <= Key(s, Mem(s)[o[b]])}

\* vec_sort returning without calling qsort
vec_sort_noqsort(s, hasCmp, order) ==
    IF ~vec_check(s) \/ ~hasCmp
    THEN Res(s, s, VEC_NULL_ERR, << >>, << >>, 0, FALSE)
    ELSE Res(s, s, VEC_GOOD, << >>, << >>, 0, FALSE)

vec_sort(s, hasCmp, order) ==
    IF ~vec_check(s) \/ ~hasCmp
    THEN Res(s, s, VEC_NULL_ERR, << >>, << >>, 0, FALSE)
    ELSE IF s.len < 2
    THEN Res(s, s, VEC_GOOD, << >>, << >>, 0, FALSE)
    ELSE IF ~Sortable(s)
    THEN Res(s, s, VEC_GOOD, << <<"r", 0, s.len>>, <<"w", 0, s.len>> >>, << >>,
             Alloc(s), TRUE)
    ELSE Res(s, Store(s,
                   [k \in 1 .. Len(Mem(s)) |->
                      IF k <= s.len THEN Mem(s)[order[k]] ELSE Mem(s)[k]]),
             VEC_GOOD, << <<"r", 0, s.len>>, <<"w", 0, s.len>> >>, << >>,
             Alloc(s), FALSE)

\* ------------------------------------------------------------- state
VARIABLES data, len, max, slots, stale, cache, perturb, heap, content,
          handed, call, pre, run, life

vecvars == <<data, len, max, slots, stale, cache, perturb, heap, content,
            handed>>
vars == <<data, len, max, slots, stale, cache, perturb, heap, content, handed,
          call, pre, run, life>>

\* the program state as the record the operations work on
Cur == [data |-> data, len |-> len, max |-> max, slots |-> slots,
        stale |-> stale, cache |-> cache, perturb |-> perturb, heap |-> heap,
        content |-> content, handed |-> handed]

Blank == [data |-> "NULL", len |-> 0, max |-> 0, slots |-> << >>,
          stale |-> << >>, cache |-> << >>, perturb |-> FALSE,
          heap |-> [id \in Ids |-> "unused"],
          content |-> [id \in Ids |-> << >>], handed |-> {}]

Call(op, args, r) ==
    [op |-> op, args |-> args, ret |-> r.ret, acc |-> r.acc,
     frees |-> r.frees, haz |-> r.haz]

Become(st) ==
    /\ data' = st.data
    /\ len' = st.len
    /\ max' = st.max
    /\ slots' = st.slots
    /\ stale' = st.stale
    /\ cache' = st.cache
    /\ perturb' = st.perturb
    /\ heap' = st.heap
    /\ content' = st.content
    /\ handed' = st.handed

\* the lifecycle the interface describes: "uninit" until vec_init succeeds,
\* "valid" from then on, "released" once vec_free has released the storage
Life(op, r) ==
    IF op = "init" THEN (IF r.ret = VEC_GOOD THEN "valid" ELSE "uninit")
    ELSE IF op = "free" /\ vec_check(Cur) THEN "released"
    ELSE life

\* A call returns with its result.  A call with undefined behaviour (haz)
\* either ends the process there or returns with memory corrupted; what the
\* process does after that is not defined, and it takes no further step.
\* No more than MaxCache released blocks are followed.
Return(op, args, r) ==
    /\ run = "ok"
    /\ Len(r.st.cache) <= MaxCache
    /\ call' = Call(op, args, r)
    /\ pre' = Cur
    /\ \/ Become(r.st) /\ run' = (IF r.haz THEN "corrupt" ELSE "ok")
          /\ life' = Life(op, r)
       \/ r.haz /\ run' = "crashed" /\ UNCHANGED <<vecvars, life>>

\* -------------------------------------------------------------- inputs
\* (d, n) arguments of vec_add and vec_ins: one byte of a two-byte buffer,
\* a NULL pointer, and a size of zero
Args(bufs) == {<<d, 1>> : d \in bufs} \cup {<<DNULL, 1>>, <<<<1, 2>>, 0>>}
Elems == Args({<<1, 2>>})
ElemsFull == Args({<<1, 2>>, <<2, 1>>})
Indexes == (0 .. MaxAllocs) \cup {SIZE_MAX}
IndexesFull == {0, 1, DEF_MAX - 2, DEF_MAX - 1, DEF_MAX, SIZE_MAX}
Counts == (0 .. MaxAllocs - 1) \cup {SIZE_MAX}
\* the indexes and counts tried on a vector of length l: each one up to l,
\* and SIZE_MAX for all those beyond it
IndexesAt(l) == {i \in Indexes : i <= l \/ i = SIZE_MAX}
CountsAt(l) == {n \in Counts : n <= l \/ n = SIZE_MAX}
ReserveArgs == {DEF_MAX, MaxReserve}
\* what the allocator may do for a request of cnt slots.  malloc, and
\* realloc of a NULL pointer, hands out again the released block of that
\* size released last; if there is none it takes new memory, which is
\* zeroed, or filled if the allocator is set to perturb it.  realloc of a
\* block that must grow extends it where it lies or moves it to new
\* memory.
DefaultFill(s) == IF s.perturb THEN Perturbed ELSE Zeroed
MallocFills(s, cnt) ==
    IF CacheAt(s, cnt) # 0 THEN {Recycled(Cached(s, cnt))}
    ELSE {DefaultFill(s)}
ReallocFills(s, cnt) ==
    IF s.data = "NULL" THEN MallocFills(s, cnt)
    ELSE IF cnt <= Len(Mem(s)) THEN {DefaultFill(s)}
    ELSE {DefaultFill(s), Extended(Mem(s))}
\* the slots vec_reserve and vec_fix ask realloc for
ReserveCount(s, n) == Wrap(Wrap(n * s.max) * PtrSize) \div PtrSize
FixCount(s) == Wrap(Wrap(2 * s.max) * PtrSize) \div PtrSize

\* vec_init on the caller's vec_t object
Init ==
    \E ok, p \in BOOLEAN :
        LET r == vec_init([Blank EXCEPT !.perturb = p], ok,
                          IF p THEN Perturbed ELSE Zeroed)
        IN  /\ data = r.st.data
            /\ len = r.st.len
            /\ max = r.st.max
            /\ slots = r.st.slots
            /\ stale = r.st.stale
            /\ cache = r.st.cache
            /\ perturb = r.st.perturb
            /\ heap = r.st.heap
            /\ content = r.st.content
            /\ handed = r.st.handed
            /\ call = Call("init", << >>, r)
            /\ pre = Blank
            /\ run = "ok"
            /\ life = IF ok THEN "valid" ELSE "uninit"

\* vec_init on the same object again, whatever it holds
Initialize == \E ok \in BOOLEAN, fill \in MallocFills(Cur, DEF_MAX) :
    Return("init", << >>, vec_init(Cur, ok, fill))

Reserve ==
    \E n \in ReserveArgs, ok \in BOOLEAN :
      \E fill \in ReallocFills(Cur, ReserveCount(Cur, n)) :
        /\ ok \/ n > max
        /\ fill.how # "inplace" \/ (ok /\ n > max)
        /\ Return("reserve", <<n>>, vec_reserve(Cur, n, ok, fill))

Sort == \E hasCmp \in BOOLEAN, order \in QsortOrders(Cur) :
    Return("sort", <<hasCmp>>, vec_sort(Cur, hasCmp, order))

\* malloc returns a new element buffer only while fewer than cap exist;
\* okFix and okElem are the outcomes of realloc and malloc, fill what the
\* grown block holds, each left out where the call does not reach it
Add(elems, cap) ==
    \E e \in elems, okFix, okElem \in BOOLEAN,
       fill \in ReallocFills(Cur, FixCount(Cur)) :
        /\ okElem => NAlloc(heap) < cap
        /\ okFix \/ len >= max
        /\ fill.how # "inplace" \/ (okFix /\ len >= max)
        /\ okElem \/ (e[1] # DNULL /\ e[2] # 0)
        /\ Return("add", e, vec_add(Cur, e[1], e[2], okFix, okElem, fill))

Insert(elems, idx, cap) ==
    \E e \in elems, i \in idx, okFix, okElem \in BOOLEAN,
       fill \in ReallocFills(Cur, FixCount(Cur)) :
        /\ okElem => NAlloc(heap) < cap
        /\ okFix \/ len >= max
        /\ fill.how # "inplace" \/ (okFix /\ len >= max)
        /\ okElem \/ (e[1] # DNULL /\ e[2] # 0)
        /\ Return("ins", <<e[1], e[2], i>>,
                  vec_ins(Cur, e[1], e[2], i, okFix, okElem, fill))

Delete(idx) == \E i \in idx : Return("del", <<i>>, vec_del(Cur, i))

DeleteRange(idx, cnts) == \E i \in idx, n \in cnts :
    Return("delrange", <<i, n>>, vec_delrange(Cur, i, n))

Reverse == Return("reverse", << >>, vec_reverse(Cur))

Clear == Return("clear", << >>, vec_clear(Cur))

Release == Return("free", << >>, vec_free(Cur))

\* every operation, in any order, with up to MaxElems element buffers
Next ==
    \/ Initialize
    \/ Reserve
    \/ Sort
    \/ Add(Elems, MaxElems)
    \/ Insert(Elems, IndexesAt(len), MaxElems)
    \/ Delete(IndexesAt(len))
    \/ DeleteRange(IndexesAt(len), CountsAt(len))
    \/ Reverse
    \/ Clear
    \/ Release

Spec == Init /\ [][Next]_vars

\* a vector filled to its capacity and beyond: insertions and deletions
\* start once the vector is nearly full
NearFull == len >= DEF_MAX - 1

NextFull ==
    \/ Add(Elems, MaxFill)
    \/ NearFull /\ Insert(Elems, IndexesFull, MaxFill)
    \/ NearFull /\ Delete(IndexesFull)

SpecFull == Init /\ [][NextFull]_vars

\* vec_add alone, from a fresh vector
NextGrow == Add(ElemsFull, MaxFill)

SpecGrow == Init /\ [][NextGrow]_vars

\* vec_reserve with requests whose byte count n * max * sizeof(void *)
\* exceeds SIZE_MAX: with max = DEF_MAX, SlotMod / 2 wraps to 0 bytes and
\* SlotMod / 2 + 1 to DEF_MAX slots
ReserveLargeArgs == {MaxReserve, SlotMod \div 2, SlotMod \div 2 + 1}

ReserveLarge ==
    \E n \in ReserveLargeArgs, ok \in BOOLEAN :
      \E fill \in ReallocFills(Cur, ReserveCount(Cur, n)) :
        /\ ok \/ n > max
        /\ fill.how # "inplace" \/ (ok /\ n > max)
        /\ Return("reserve", <<n>>, vec_reserve(Cur, n, ok, fill))

NextReserve ==
    \/ Initialize
    \/ Add(Elems, MaxElems)
    \/ ReserveLarge

SpecReserve == Init /\ [][NextReserve]_vars

\* vec_sort on vectors of elements that differ in their first byte, and on
\* the vector a failed vec_init left without storage
NextSort ==
    \/ Add(ElemsFull, MaxAllocs)
    \/ Sort

SpecSort == Init /\ [][NextSort]_vars

\* the operations that rearrange or remove the elements of a vector, on up
\* to MaxAllocs elements
NextEdit ==
    \/ Add(Elems, MaxAllocs)
    \/ Insert(Elems, IndexesAt(len), MaxAllocs)
    \/ DeleteRange(IndexesAt(len), CountsAt(len))
    \/ Reverse
    \/ Clear

SpecEdit == Init /\ [][NextEdit]_vars

\* every operation that may change the capacity or must keep it, on a
\* vector filled to its capacity and beyond, so that vec_fix doubles it:
\* Reserve at any length, Sort while there are few elements to order, the
\* others when the length has reached the capacity
IndexesCap == {0, DEF_MAX, SIZE_MAX}
CountsCap == {0, 1, SIZE_MAX}
AtCap == len = max

NextCap ==
    \/ Add(Elems, MaxFill)
    \/ Reserve
    \/ len <= MaxElems /\ Sort
    \/ AtCap /\ Insert(Elems, IndexesCap, MaxFill)
    \/ AtCap /\ Delete(IndexesCap)
    \/ AtCap /\ DeleteRange(IndexesCap, CountsCap)
    \/ AtCap /\ Reverse
    \/ AtCap /\ Clear

SpecCap == Init /\ [][NextCap]_vars

\* ====================================================== properties
\* the representation a valid vector is meant to keep: storage of at least
\* max slots, len <= max, and every slot below len holding its own live
\* element buffer that the vector still owns
RepOK(s) ==
    /\ s.data = "PTR"
    /\ s.len <= s.max
    /\ s.max <= Len(s.slots)
    /\ \A k \in 1 .. s.len :
         /\ s.slots[k] \in Ids
         /\ s.heap[s.slots[k]] = "live"
         /\ s.slots[k] \notin s.handed
         /\ \A j \in 1 .. s.len : j # k => s.slots[j] # s.slots[k]

\* C1: after every call, length <= capacity.
C1_LenLeCap == len <= max

\* C2: in a valid vector every slot below length holds a non-null buffer that
\* is allocated, owned by the vector (neither freed nor handed to the caller),
\* and held by no other slot below length.
C2_SlotsOwned ==
    data = "PTR" =>
        \A k \in 0 .. len - 1 :
            /\ Rd(slots, k) \in Ids
            /\ heap[Rd(slots, k)] = "live"
            /\ Rd(slots, k) \notin handed
            /\ \A j \in 0 .. len - 1 : j # k => Rd(slots, j) # Rd(slots, k)

\* C3: Delete(i) on a valid vector of length L >= 1 returns the element at
\* the effective index e (i if i < L, else L - 1), makes length L - 1, leaves
\* capacity alone, keeps the elements before e in place and moves those after
\* e one slot down, in order.
C3_DeleteShifts ==
    (call.op = "del" /\ RepOK(pre) /\ pre.len >= 1) =>
        LET L == pre.len
            i == call.args[1]
            e == IF i < L THEN i ELSE L - 1
        IN  /\ run = "ok"
            /\ call.ret = pre.slots[e + 1]
            /\ len = L - 1
            /\ max = pre.max
            /\ \A k \in 0 .. e - 1 : slots[k + 1] = pre.slots[k + 1]
            /\ \A k \in e .. L - 2 : slots[k + 1] = pre.slots[k + 2]
            /\ heap = pre.heap /\ content = pre.content

\* a Delete below the last index of a full vector (length = capacity) of
\* which the elements after the removed one moved down
C3_Witness ==
    /\ call.op = "del" /\ RepOK(pre) /\ run = "ok"
    /\ pre.len = pre.max
    /\ call.args[1] = 1
    /\ call.ret = pre.slots[2]
    /\ len = pre.len - 1
    /\ slots[2] = pre.slots[3]

\* C4: Delete(i) on a valid, empty vector returns NULL and changes neither
\* length, capacity nor the slots.
C4_DeleteEmptyNoop ==
    (call.op = "del" /\ pre.data = "PTR" /\ pre.len = 0) =>
        /\ run = "ok"
        /\ call.ret = NULL
        /\ len = 0
        /\ max = pre.max
        /\ slots = pre.slots

\* C5: a successful Insert(v, i) with i < L, on a valid vector of length L,
\* makes length L + 1, puts a new copy of v at i, moves the occupants of
\* i .. L-1 to i+1 .. L in order and leaves those of 0 .. i-1 in place; this
\* also when L = capacity and the storage grows first.
C5_InsertShifts ==
    (call.op = "ins" /\ call.ret = VEC_GOOD /\ RepOK(pre)
        /\ call.args[3] < pre.len) =>
        LET L == pre.len
            d == call.args[1]
            n == call.args[2]
            i == call.args[3]
        IN  /\ run = "ok"
            /\ len = L + 1
            /\ len <= max /\ max <= Len(slots)
            /\ slots[i + 1] \in Ids
            /\ pre.heap[slots[i + 1]] = "unused"
            /\ heap[slots[i + 1]] = "live"
            /\ content[slots[i + 1]] = SubSeq(d, 1, n)
            /\ \A k \in 0 .. i - 1 : slots[k + 1] = pre.slots[k + 1]
            /\ \A k \in i .. L - 1 : slots[k + 2] = pre.slots[k + 1]
            /\ \A k \in 1 .. L :
                 /\ heap[pre.slots[k]] = "live"
                 /\ content[pre.slots[k]] = pre.content[pre.slots[k]]

\* an Insert at index 0 of a full vector: the storage grew and every former
\* element moved up by one
C5_Witness ==
    /\ call.op = "ins" /\ call.ret = VEC_GOOD /\ RepOK(pre) /\ run = "ok"
    /\ pre.len = pre.max
    /\ call.args[3] = 0
    /\ max = 2 * pre.max
    /\ len = pre.len + 1
    /\ slots[len] = pre.slots[pre.len]

\* C6: in every valid vector state, Insert(data, size, i) with i >= length
\* returns the status, and leaves the length, capacity, storage and element
\* buffers, that Add(data, size) does, whether the allocations succeed or
\* fail.
C6_InsertBeyondIsAdd ==
    data # "NULL" /\ run = "ok" =>
        \A e \in ElemsFull, i \in Indexes \cup IndexesFull,
           okFix, okElem \in BOOLEAN, fill \in ReallocFills(Cur, FixCount(Cur)) :
            (i >= len /\ (okElem => NAlloc(heap) < MaxFill)) =>
                LET a == vec_add(Cur, e[1], e[2], okFix, okElem, fill)
                    b == vec_ins(Cur, e[1], e[2], i, okFix, okElem, fill)
                IN  /\ b.ret = a.ret
                    /\ b.st.len = a.st.len
                    /\ b.st.max = a.st.max
                    /\ b.st.slots = a.st.slots
                    /\ b.st.heap = a.st.heap
                    /\ b.st.content = a.st.content

\* an Insert at an index beyond the length of a full vector, which grew the
\* storage and appended the element as Add does
C6_Witness ==
    /\ call.op = "ins" /\ call.ret = VEC_GOOD /\ run = "ok"
    /\ pre.data = "PTR"
    /\ call.args[3] > pre.len
    /\ pre.len = pre.max
    /\ len = pre.len + 1
    /\ max = 2 * pre.max
    /\ slots[len] \in Ids /\ pre.heap[slots[len]] = "unused"

\* C7: from a fresh vector, after n successful Adds length is n and index k
\* holds the element of the k-th Add; an Add that finds length = capacity
\* doubles the capacity, and no Add changes an element stored before.
C7_AppendOrder ==
    data = "PTR" =>
        /\ len = NAlloc(heap)
        /\ len <= max /\ max <= Len(slots)
        /\ \A k \in 1 .. len : slots[k] = k /\ heap[k] = "live"
        /\ len > DEF_MAX => max = 2 * DEF_MAX
        /\ call.op = "add" =>
             /\ run = "ok"
             /\ \A k \in 1 .. pre.len :
                  /\ slots[k] = pre.slots[k]
                  /\ content[slots[k]] = pre.content[pre.slots[k]]
             /\ max = (IF pre.len = pre.max /\ max # pre.max
                       THEN 2 * pre.max ELSE pre.max)
             /\ IF call.ret = VEC_GOOD
                THEN /\ len = pre.len + 1
                     /\ content[slots[len]] = SubSeq(call.args[1], 1, call.args[2])
                     /\ max = (IF pre.len = pre.max THEN 2 * pre.max ELSE pre.max)
                ELSE len = pre.len

\* eleven successful Adds of differing values: the capacity doubled from 10
\* to 20 on the eleventh
C7_Witness ==
    /\ call.op = "add" /\ call.ret = VEC_GOOD /\ run = "ok"
    /\ len = DEF_MAX + 1
    /\ pre.max = DEF_MAX
    /\ max = 2 * DEF_MAX
    /\ content[slots[1]] # content[slots[2]]
    /\ content[slots[len]] = <<2>>

Min(a, b) == IF a < b THEN a ELSE b

\* C8: DeleteRange(index, count) with count >= 1 on a valid vector of length
\* L >= 1 starts at s (index if index < L, else L - 1), removes the
\* k = min(count, L - s) elements at s .. s+k-1, frees each of them once,
\* makes length L - k, and moves the elements after them down to s in order,
\* leaving those before s in place.
C8_DeleteRange ==
    (call.op = "delrange" /\ call.args[2] >= 1 /\ RepOK(pre) /\ pre.len >= 1) =>
        LET L == pre.len
            s == IF call.args[1] < L THEN call.args[1] ELSE L - 1
            k == Min(call.args[2], L - s)
        IN  /\ run = "ok"
            /\ call.frees = [j \in 1 .. k |-> pre.slots[s + j]]
            /\ \A id \in Ids :
                 heap[id] = (IF \E j \in 1 .. k : pre.slots[s + j] = id
                             THEN "freed" ELSE pre.heap[id])
            /\ len = L - k
            /\ max = pre.max
            /\ \A j \in 0 .. s - 1 : slots[j + 1] = pre.slots[j + 1]
            /\ \A j \in s .. L - k - 1 : slots[j + 1] = pre.slots[j + k + 1]

\* a DeleteRange of one element from the middle of three: the first stays,
\* the second is freed, the third moves down
C8_Witness ==
    /\ call.op = "delrange" /\ RepOK(pre) /\ run = "ok"
    /\ pre.len = 3
    /\ call.args = <<1, 1>>
    /\ len = 2
    /\ heap[pre.slots[2]] = "freed"
    /\ slots[1] = pre.slots[1]
    /\ slots[2] = pre.slots[3]

\* C9: DeleteRange(index, count) on a valid, empty vector does nothing: it
\* frees no buffer, accesses no slot, and length stays 0.
C9_DeleteRangeEmptyNoop ==
    (call.op = "delrange" /\ pre.data = "PTR" /\ pre.len = 0) =>
        /\ run = "ok"
        /\ call.frees = << >>
        /\ \A k \in 1 .. Len(call.acc) : call.acc[k][3] = 0
        /\ len = 0
        /\ heap = pre.heap

\* C10: once Release has been applied the vector stays without storage until
\* Initialize: Add, Insert, Reserve and Sort return an error, and Delete,
\* DeleteRange, Reverse, Clear and Release change nothing.
C10_ReleasedStaysReleased ==
    life = "released" =>
        /\ data = "NULL"
        /\ call.op \in {"add", "ins", "reserve", "sort"} => call.ret # VEC_GOOD
        /\ call.op \in {"del", "delrange", "reverse", "clear"} => Cur = pre

\* the elements of a vector state, index 0 first
Elements(s) == [k \in 1 .. s.len |-> Rd(Mem(s), k - 1)]

\* C11: an Add or Insert of valid data on a valid vector that fails because
\* an allocation fails (the growth realloc or the element's malloc, also
\* when length = capacity and the growth succeeds before the malloc fails)
\* leaves length, capacity and the elements as they were.
C11_AllocFailNoEffect ==
    (call.op \in {"add", "ins"} /\ RepOK(pre)
        /\ call.args[1] # DNULL /\ call.args[2] # 0
        /\ call.ret = VEC_ALLOC_ERR) =>
        /\ run = "ok"
        /\ len = pre.len
        /\ max = pre.max
        /\ Elements(Cur) = Elements(pre)
        /\ heap = pre.heap

\* C12: an Add or Insert with NULL data or size 0 on a valid vector fails
\* with a status that is neither success nor the allocation error, creates
\* no element, and leaves length, capacity and the elements as they were,
\* also when length = capacity.
C12_InvalidArgRejected ==
    (call.op \in {"add", "ins"} /\ RepOK(pre)
        /\ (call.args[1] = DNULL \/ call.args[2] = 0)) =>
        /\ run = "ok"
        /\ call.ret \notin {VEC_GOOD, VEC_ALLOC_ERR}
        /\ len = pre.len
        /\ max = pre.max
        /\ Elements(Cur) = Elements(pre)
        /\ heap = pre.heap

\* C13: Reserve(n) on a valid vector of capacity c returns the range error
\* and changes nothing if n <= c; otherwise it either succeeds, with
\* capacity n and length and elements as before, or returns the allocation
\* error with capacity, length and elements as before.
C13_Reserve ==
    (call.op = "reserve" /\ RepOK(pre)) =>
        LET n == call.args[1]
        IN  /\ run = "ok"
            /\ IF n <= pre.max
               THEN call.ret = VEC_RANGE_ERR /\ Cur = pre
               ELSE \/ /\ call.ret = VEC_GOOD
                       /\ data = "PTR"
                       /\ max = n
                       /\ len = pre.len
                       /\ Elements(Cur) = Elements(pre)
                       /\ heap = pre.heap
                    \/ /\ call.ret = VEC_ALLOC_ERR
                       /\ max = pre.max
                       /\ len = pre.len
                       /\ Elements(Cur) = Elements(pre)
                       /\ heap = pre.heap

\* C20: after every successful Reserve(n), and every Add or Insert that grew
\* the storage, of a valid vector, the block allocated holds at least
\* capacity slots, the byte counts being computed modulo 2^SizeBits.
C20_StorageHoldsCapacity ==
    (RepOK(pre) /\ run = "ok"
        /\ \/ call.op = "reserve" /\ call.ret = VEC_GOOD
           \/ call.op \in {"add", "ins"} /\ max # pre.max) =>
        /\ data = "PTR"
        /\ max <= Len(slots)

\* C14: Reverse on a valid vector of length L moves the element at index k
\* to index L - 1 - k for every k < L, changes neither length nor capacity
\* nor any element buffer, and a second Reverse restores the order the
\* first one found.
C14_Reverse ==
    (call.op = "reverse" /\ RepOK(pre)) =>
        LET L == pre.len
        IN  /\ run = "ok"
            /\ len = L
            /\ max = pre.max
            /\ \A k \in 0 .. L - 1 : slots[L - 1 - k + 1] = pre.slots[k + 1]
            /\ heap = pre.heap /\ content = pre.content
            /\ Elements(vec_reverse(Cur).st) = Elements(pre)
            /\ vec_reverse(Cur).st.len = L
            /\ vec_reverse(Cur).st.max = pre.max

\* a Reverse of three elements: the first and the last changed places and
\* the middle one stayed
C14_Witness ==
    /\ call.op = "reverse" /\ RepOK(pre) /\ run = "ok"
    /\ pre.len = 3
    /\ slots[1] = pre.slots[3] /\ slots[3] = pre.slots[1]
    /\ slots[1] # slots[3]
    /\ slots[2] = pre.slots[2]

\* C15: Clear on a valid vector of length L frees each of its L elements
\* once, sets length to 0, keeps capacity and the backing storage, and
\* leaves the vector valid: an Add that follows succeeds and stores its
\* element at index 0.
C15_Clear ==
    (call.op = "clear" /\ RepOK(pre)) =>
        /\ run = "ok"
        /\ call.frees = Elements(pre)
        /\ \A id \in Ids :
             heap[id] = (IF \E k \in 1 .. pre.len : pre.slots[k] = id
                         THEN "freed" ELSE pre.heap[id])
        /\ len = 0
        /\ max = pre.max
        /\ data = pre.data
        /\ Len(slots) = Len(pre.slots)
        /\ RepOK(Cur)
        /\ LET a == vec_add(Cur, <<1, 2>>, 1, TRUE, TRUE, DefaultFill(Cur))
           IN  /\ a.ret = VEC_GOOD
               /\ ~a.haz
               /\ a.acc = << <<"w", 0, 1>> >>
               /\ a.st.len = 1
               /\ a.st.slots[1] \in Ids
               /\ heap[a.st.slots[1]] = "unused"
               /\ a.st.heap[a.st.slots[1]] = "live"
               /\ a.st.max = pre.max

\* a Clear of three elements: all three were freed and the storage kept
C15_Witness ==
    /\ call.op = "clear" /\ RepOK(pre) /\ run = "ok"
    /\ pre.len = 3
    /\ Len(call.frees) = 3
    /\ \A k \in 1 .. 3 : heap[pre.slots[k]] = "freed"
    /\ len = 0
    /\ data = "PTR" /\ max = pre.max

\* C16: no Add, Insert, Delete, DeleteRange, Reserve, Reverse, Sort or Clear
\* on a valid vector, whether it succeeds or fails, lowers the capacity, and
\* Delete, DeleteRange and Clear leave it as it was.
C16_CapacityMonotone ==
    (call.op \in {"add", "ins", "del", "delrange", "reserve", "reverse",
                  "sort", "clear"} /\ vec_check(pre)) =>
        /\ max >= pre.max
        /\ call.op \in {"del", "delrange", "clear"} => max = pre.max

\* an Add to a full vector that failed after vec_fix had grown the
\* storage: the capacity doubled and did not go back
C16_Witness ==
    /\ call.op = "add" /\ RepOK(pre) /\ run = "ok"
    /\ pre.len = pre.max
    /\ call.ret = VEC_ALLOC_ERR
    /\ len = pre.len
    /\ max = 2 * pre.max

\* C17: Sort returns an error and changes nothing when the vector has no
\* storage or no comparator is given; on a valid vector with a comparator
\* it returns success, leaves length and capacity alone and leaves the same
\* elements, each once, in non-decreasing order of the comparator; with
\* length 0 it succeeds without sorting anything.
C17_Sort ==
    call.op = "sort" =>
        IF ~vec_check(pre) \/ ~call.args[1]
        THEN /\ call.ret # VEC_GOOD
             /\ call.acc = << >>
             /\ Cur = pre
        ELSE RepOK(pre) =>
             /\ run = "ok"
             /\ call.ret = VEC_GOOD
             /\ len = pre.len
             /\ max = pre.max
             /\ heap = pre.heap /\ content = pre.content
             /\ {slots[k] : k \in 1 .. len} = {pre.slots[k] : k \in 1 .. len}
             /\ \A j, k \in 1 .. len : j # k => slots[j] # slots[k]
             /\ \A j, k \in 1 .. len :
                  j < k => Key(Cur, slots[j]) <= Key(Cur, slots[k])
             /\ \A k \in len + 1 .. Len(slots) : slots[k] = pre.slots[k]
             /\ pre.len = 0 => call.acc = << >>

\* a Sort of three elements of which the first compared greater than the
\* second: afterwards the keys ascend
C17_Witness ==
    /\ call.op = "sort" /\ call.args[1] /\ RepOK(pre) /\ run = "ok"
    /\ call.ret = VEC_GOOD
    /\ pre.len = 3
    /\ Key(pre, pre.slots[1]) > Key(pre, pre.slots[2])
    /\ Key(Cur, slots[1]) < Key(Cur, slots[3])
    /\ slots # pre.slots

\* C18: no operation on a valid, non-empty vector reads or writes a slot
\* outside 0 .. capacity - 1, the capacity being the one the call leaves;
\* this includes a Delete below the last index of a full vector and an
\* Insert below the length that grows the storage.
C18_AccessInBounds ==
    (call.op \in {"add", "ins", "del", "delrange", "reserve", "reverse",
                  "sort", "clear", "free"}
        /\ RepOK(pre) /\ pre.len >= 1) =>
        \A k \in 1 .. Len(call.acc) :
            call.acc[k][3] > 0 => call.acc[k][2] + call.acc[k][3] <= max

\* C19: in every sequence of calls from Initialize on, the vector frees no
\* element buffer a second time and none that Delete returned to the
\* caller, and when Release returns every element buffer allocated has
\* either been freed or been returned by Delete.
C19_BuffersAccounted ==
    /\ \A k \in 1 .. Len(call.frees) :
         call.frees[k] \in Ids =>
            /\ pre.heap[call.frees[k]] # "freed"
            /\ call.frees[k] \notin pre.handed
            /\ \A j \in 1 .. Len(call.frees) :
                 j # k => call.frees[j] # call.frees[k]
    /\ \A id \in handed : heap[id] = "live"
    /\ (call.op = "free" /\ vec_check(pre) /\ run # "crashed") =>
         \A id \in Ids :
             heap[id] # "unused" => (heap[id] = "freed" \/ id \in handed)

====
